---- MODULE Spec2Model ----
(***************************************************************************)
(* A model of src/music_mixer_logic.py (class MusicMixer): filename based  *)
(* tempo and key extraction, the Camelot compatibility relation, the       *)
(* metadata caches, sample classification, layer selection and the mix     *)
(* assembly loops.                                                         *)
(*                                                                         *)
(* Python strings are sequences of one-character strings, so that regular  *)
(* expression search, substring tests, case conversion, int() and          *)
(* f-string formatting are computed character by character.                *)
(***************************************************************************)
EXTENDS Integers, Sequences, FiniteSets, TLC

VARIABLES
    target_bpm,         \* self.target_bpm
    current_key,        \* self.current_key
    experimental_mode,  \* self.experimental_mode
    samples_dir,        \* self.samples_dir
    bpm_cache,          \* self.bpm_cache : path -> bpm
    key_cache,          \* self.key_cache : path -> key or None
    pc,                 \* position of the running call
    call,               \* the call being made: name and arguments
    ret,                \* value returned (or the exception raised) by the last call
    loc                 \* local variables of the running call

vars == <<samples_dir, target_bpm, current_key, experimental_mode, bpm_cache, key_cache,
          pc, call, ret, loc>>

----------------------------------------------------------------------------
(* Python values *)

\* None, kept apart from every string (a string is a sequence of characters)
None == <<"None">>

\* the result of a pattern that does not match
NoMatch == << >>

DigitChars == <<"0", "1", "2", "3", "4", "5", "6", "7", "8", "9">>
UpperChars == <<"A", "B", "C", "D", "E", "F", "G", "H", "I", "J", "K", "L", "M",
                "N", "O", "P", "Q", "R", "S", "T", "U", "V", "W", "X", "Y", "Z">>
LowerChars == <<"a", "b", "c", "d", "e", "f", "g", "h", "i", "j", "k", "l", "m",
                "n", "o", "p", "q", "r", "s", "t", "u", "v", "w", "x", "y", "z">>

Range(f) == {f[i] : i \in DOMAIN f}

Digits == Range(DigitChars)
UpperLetters == Range(UpperChars)
LowerLetters == Range(LowerChars)

IsDigit(c) == c \in Digits

\* int() of one decimal digit
DigitValue == [c \in Digits |-> (CHOOSE i \in DOMAIN DigitChars : DigitChars[i] = c) - 1]

DigitVal(c) == DigitValue[c]

\* str.lower() and str.upper() of one character
LowerOf == [c \in UpperLetters |->
              LowerChars[CHOOSE i \in DOMAIN UpperChars : UpperChars[i] = c]]

UpperOf == [c \in LowerLetters |->
              UpperChars[CHOOSE i \in DOMAIN LowerChars : LowerChars[i] = c]]

LowerChar(c) == IF c \in UpperLetters THEN LowerOf[c] ELSE c

UpperChar(c) == IF c \in LowerLetters THEN UpperOf[c] ELSE c

Lower(s) == [i \in DOMAIN s |-> LowerChar(s[i])]
Upper(s) == [i \in DOMAIN s |-> UpperChar(s[i])]

\* int(s) for a string of decimal digits
RECURSIVE ParseInt(_)
ParseInt(s) ==
    IF Len(s) = 0 THEN 0
    ELSE 10 * ParseInt(SubSeq(s, 1, Len(s) - 1)) + DigitVal(s[Len(s)])

\* str(n) for n >= 0
RECURSIVE FormatInt(_)
FormatInt(n) ==
    IF n < 10 THEN <<DigitChars[n + 1]>>
    ELSE FormatInt(n \div 10) \o <<DigitChars[(n % 10) + 1]>>

\* sub in s  (substring test)
Contains(s, sub) ==
    \E i \in 1..(Len(s) - Len(sub) + 1) :
        \A j \in 1..Len(sub) : s[i + j - 1] = sub[j]

\* s.endswith(suffix)
EndsWith(s, suffix) ==
    /\ Len(suffix) <= Len(s)
    /\ SubSeq(s, Len(s) - Len(suffix) + 1, Len(s)) = suffix

\* os.path.basename / os.path.dirname
LastSlash(p) ==
    LET I == {i \in DOMAIN p : p[i] = "/"}
    IN  IF I = {} THEN 0 ELSE CHOOSE i \in I : \A j \in I : j <= i

Basename(p) == SubSeq(p, LastSlash(p) + 1, Len(p))

Dirname(p) == SubSeq(p, 1, LastSlash(p) - 1)

----------------------------------------------------------------------------
(* Regular expressions (re.search with re.IGNORECASE): the leftmost          *)
(* position at which the pattern matches, greedy quantifiers first.          *)

\* \w : letters, digits and the underscore
WordChars == Digits \cup UpperLetters \cup LowerLetters \cup {"_"}

IsWordChar(c) == c \in WordChars

\* [\s_-]
IsSepChar(c) == c \in {" ", "_", "-"}

\* \b just before position k (1 .. Len(s)+1)
WordBoundary(s, k) ==
    LET before == k > 1 /\ IsWordChar(s[k - 1])
        after  == k <= Len(s) /\ IsWordChar(s[k])
    IN  before # after

\* a literal, case-insensitively, at position i
LiteralAt(s, i, lit) ==
    /\ i >= 1
    /\ i + Len(lit) - 1 <= Len(s)
    /\ \A j \in 1..Len(lit) : LowerChar(s[i + j - 1]) = LowerChar(lit[j])

\* exactly n digits at position i
DigitsAt(s, i, n) ==
    /\ i >= 1
    /\ i + n - 1 <= Len(s)
    /\ \A j \in i..(i + n - 1) : IsDigit(s[j])

\* [\s_-]* from position i: the position after the separators
RECURSIVE SkipSeps(_, _)
SkipSeps(s, i) ==
    IF i <= Len(s) /\ IsSepChar(s[i]) THEN SkipSeps(s, i + 1) ELSE i

\* \d{1,2}[AB] at position i: the length matched, or 0
CamelotAt(s, i) ==
    IF DigitsAt(s, i, 2) /\ i + 2 <= Len(s) /\ UpperChar(s[i + 2]) \in {"A", "B"}
    THEN 3
    ELSE IF DigitsAt(s, i, 1) /\ i + 1 <= Len(s) /\ UpperChar(s[i + 1]) \in {"A", "B"}
    THEN 2
    ELSE 0

\* re.search: group 1 of the leftmost match of Pat, or NoMatch
RECURSIVE SearchFrom(_, _, _)
SearchFrom(Pat(_, _), s, i) ==
    IF i > Len(s) + 1 THEN NoMatch
    ELSE LET m == Pat(s, i)
         IN  IF m # NoMatch THEN m ELSE SearchFrom(Pat, s, i + 1)

Search(Pat(_, _), s) == SearchFrom(Pat, s, 1)

\* r'\b(\d{1,2}[AB])\b'
KeyPat1(s, i) ==
    LET n == CamelotAt(s, i)
    IN  IF n > 0 /\ WordBoundary(s, i) /\ WordBoundary(s, i + n)
        THEN SubSeq(s, i, i + n - 1) ELSE NoMatch

\* r'key[\s_-]*(\d{1,2}[AB])'
KeyPat2(s, i) ==
    IF LiteralAt(s, i, <<"k", "e", "y">>)
    THEN LET j == SkipSeps(s, i + 3)
             n == CamelotAt(s, j)
         IN  IF n > 0 THEN SubSeq(s, j, j + n - 1) ELSE NoMatch
    ELSE NoMatch

\* r'(\d{1,2}[AB])[\s_-]*key'
KeyPat3(s, i) ==
    LET n == CamelotAt(s, i)
    IN  IF n > 0 /\ LiteralAt(s, SkipSeps(s, i + n), <<"k", "e", "y">>)
        THEN SubSeq(s, i, i + n - 1) ELSE NoMatch

\* (\d{2,3}) at position i followed by Rest: three digits are tried first
Digits23Then(s, i, Rest(_, _)) ==
    IF DigitsAt(s, i, 3) /\ Rest(s, i + 3) THEN SubSeq(s, i, i + 2)
    ELSE IF DigitsAt(s, i, 2) /\ Rest(s, i + 2) THEN SubSeq(s, i, i + 1)
    ELSE NoMatch

ThenBpm(s, k) == LiteralAt(s, k, <<"b", "p", "m">>)
ThenAnything(s, k) == TRUE
ThenSepBpm(s, k) == k <= Len(s) /\ IsSepChar(s[k]) /\ LiteralAt(s, k + 1, <<"b", "p", "m">>)
ThenSep(s, k) == k <= Len(s) /\ IsSepChar(s[k])
ThenEnd(s, k) == k = Len(s) + 1
ThenParen(s, k) == k <= Len(s) /\ s[k] = ")"

\* r'(\d{2,3})bpm'
BpmPat1(s, i) == Digits23Then(s, i, ThenBpm)

\* r'bpm[\s_-]*(\d{2,3})'
BpmPat2(s, i) ==
    IF LiteralAt(s, i, <<"b", "p", "m">>)
    THEN Digits23Then(s, SkipSeps(s, i + 3), ThenAnything)
    ELSE NoMatch

\* r'[\s_-](\d{2,3})[\s_-]bpm'
BpmPat3(s, i) ==
    IF i <= Len(s) /\ IsSepChar(s[i])
    THEN Digits23Then(s, i + 1, ThenSepBpm) ELSE NoMatch

\* r'^(\d{2,3})[\s_-]'
BpmPat4(s, i) ==
    IF i = 1 THEN Digits23Then(s, i, ThenSep) ELSE NoMatch

\* r'[\s_-](\d{2,3})$'
BpmPat5(s, i) ==
    IF i <= Len(s) /\ IsSepChar(s[i])
    THEN Digits23Then(s, i + 1, ThenEnd) ELSE NoMatch

\* r'\((\d{2,3})\)'
BpmPat6(s, i) ==
    IF i <= Len(s) /\ s[i] = "("
    THEN Digits23Then(s, i + 1, ThenParen) ELSE NoMatch

----------------------------------------------------------------------------
(* Module constants and static methods *)

\* the codes of the Camelot wheel (the keys of the dict CAMELOT_WHEEL)
CAMELOT_WHEEL == {
    <<"1", "A">>, <<"2", "A">>, <<"3", "A">>, <<"4", "A">>, <<"5", "A">>, <<"6", "A">>,
    <<"7", "A">>, <<"8", "A">>, <<"9", "A">>, <<"1", "0", "A">>, <<"1", "1", "A">>, <<"1", "2", "A">>,
    <<"1", "B">>, <<"2", "B">>, <<"3", "B">>, <<"4", "B">>, <<"5", "B">>, <<"6", "B">>,
    <<"7", "B">>, <<"8", "B">>, <<"9", "B">>, <<"1", "0", "B">>, <<"1", "1", "B">>, <<"1", "2", "B">>
}

musical_keys == <<
    <<<<"c", "m", "a", "j">>, <<"8", "B">>>>,
    <<<<"c", " ", "m", "a", "j", "o", "r">>, <<"8", "B">>>>,
    <<<<"c", "#", "m", "a", "j">>, <<"3", "B">>>>,
    <<<<"c", "#", " ", "m", "a", "j", "o", "r">>, <<"3", "B">>>>,
    <<<<"d", "m", "a", "j">>, <<"1", "0", "B">>>>,
    <<<<"d", " ", "m", "a", "j", "o", "r">>, <<"1", "0", "B">>>>,
    <<<<"d", "#", "m", "a", "j">>, <<"5", "B">>>>,
    <<<<"d", "#", " ", "m", "a", "j", "o", "r">>, <<"5", "B">>>>,
    <<<<"e", "m", "a", "j">>, <<"1", "2", "B">>>>,
    <<<<"e", " ", "m", "a", "j", "o", "r">>, <<"1", "2", "B">>>>,
    <<<<"f", "m", "a", "j">>, <<"7", "B">>>>,
    <<<<"f", " ", "m", "a", "j", "o", "r">>, <<"7", "B">>>>,
    <<<<"f", "#", "m", "a", "j">>, <<"2", "B">>>>,
    <<<<"f", "#", " ", "m", "a", "j", "o", "r">>, <<"2", "B">>>>,
    <<<<"g", "m", "a", "j">>, <<"9", "B">>>>,
    <<<<"g", " ", "m", "a", "j", "o", "r">>, <<"9", "B">>>>,
    <<<<"g", "#", "m", "a", "j">>, <<"4", "B">>>>,
    <<<<"g", "#", " ", "m", "a", "j", "o", "r">>, <<"4", "B">>>>,
    <<<<"a", "m", "a", "j">>, <<"1", "1", "B">>>>,
    <<<<"a", " ", "m", "a", "j", "o", "r">>, <<"1", "1", "B">>>>,
    <<<<"a", "#", "m", "a", "j">>, <<"6", "B">>>>,
    <<<<"a", "#", " ", "m", "a", "j", "o", "r">>, <<"6", "B">>>>,
    <<<<"b", "m", "a", "j">>, <<"1", "B">>>>,
    <<<<"b", " ", "m", "a", "j", "o", "r">>, <<"1", "B">>>>,
    <<<<"c", "m", "i", "n">>, <<"5", "A">>>>,
    <<<<"c", " ", "m", "i", "n", "o", "r">>, <<"5", "A">>>>,
    <<<<"c", "#", "m", "i", "n">>, <<"1", "2", "A">>>>,
    <<<<"c", "#", " ", "m", "i", "n", "o", "r">>, <<"1", "2", "A">>>>,
    <<<<"d", "m", "i", "n">>, <<"7", "A">>>>,
    <<<<"d", " ", "m", "i", "n", "o", "r">>, <<"7", "A">>>>,
    <<<<"d", "#", "m", "i", "n">>, <<"2", "A">>>>,
    <<<<"d", "#", " ", "m", "i", "n", "o", "r">>, <<"2", "A">>>>,
    <<<<"e", "m", "i", "n">>, <<"9", "A">>>>,
    <<<<"e", " ", "m", "i", "n", "o", "r">>, <<"9", "A">>>>,
    <<<<"f", "m", "i", "n">>, <<"4", "A">>>>,
    <<<<"f", " ", "m", "i", "n", "o", "r">>, <<"4", "A">>>>,
    <<<<"f", "#", "m", "i", "n">>, <<"1", "1", "A">>>>,
    <<<<"f", "#", " ", "m", "i", "n", "o", "r">>, <<"1", "1", "A">>>>,
    <<<<"g", "m", "i", "n">>, <<"6", "A">>>>,
    <<<<"g", " ", "m", "i", "n", "o", "r">>, <<"6", "A">>>>,
    <<<<"g", "#", "m", "i", "n">>, <<"1", "A">>>>,
    <<<<"g", "#", " ", "m", "i", "n", "o", "r">>, <<"1", "A">>>>,
    <<<<"a", "m", "i", "n">>, <<"8", "A">>>>,
    <<<<"a", " ", "m", "i", "n", "o", "r">>, <<"8", "A">>>>,
    <<<<"a", "#", "m", "i", "n">>, <<"3", "A">>>>,
    <<<<"a", "#", " ", "m", "i", "n", "o", "r">>, <<"3", "A">>>>,
    <<<<"b", "m", "i", "n">>, <<"1", "0", "A">>>>,
    <<<<"b", " ", "m", "i", "n", "o", "r">>, <<"1", "0", "A">>>>
>>

\* the least member of a set of positions: the first pattern or table entry
\* the loops of the two extract functions come to
Least(S) == CHOOSE k \in S : \A j \in S : k <= j

\* lines 61-66: a Camelot pattern counts when the code it found is on the wheel
IsWheelCode(group) == group # NoMatch /\ Upper(group) \in CAMELOT_WHEEL

\* lines 61-88, given the group of each Camelot pattern, the patterns that
\* count and the key names found in the lower-cased file name
KeyAmong(groups, hits, named) ==
    IF hits # {} THEN Upper(groups[Least(hits)])
    ELSE IF named # {} THEN musical_keys[Least(named)][2]
    ELSE None

KeyOfGroups(groups, lowered) ==
    KeyAmong(groups,
             {k \in DOMAIN groups : IsWheelCode(groups[k])},
             {k \in DOMAIN musical_keys : Contains(lowered, musical_keys[k][1])})

\* extract_key_from_filename: the three Camelot patterns in order, each
\* judged on its leftmost match only, then the table of key names
extract_key_from_filename(filename) ==
    KeyOfGroups(<<Search(KeyPat1, filename),
                  Search(KeyPat2, filename),
                  Search(KeyPat3, filename)>>,
                Lower(filename))

\* "no tempo": the None of extract_bpm_from_filename, an integer no tempo equals
NoBpm == -1

\* line 106: 80 <= bpm <= 180
InBpmRange(bpm) == 80 <= bpm /\ bpm <= 180

\* lines 103-107: a pattern counts when it matched a tempo in the range
IsBpmGroup(group) == group # NoMatch /\ InBpmRange(ParseInt(group))

BpmAmong(groups, hits) ==
    IF hits # {} THEN ParseInt(groups[Least(hits)]) ELSE NoBpm

BpmOfGroups(groups) ==
    BpmAmong(groups, {k \in DOMAIN groups : IsBpmGroup(groups[k])})

\* extract_bpm_from_filename: six patterns in order, each judged on its
\* leftmost match only; the value must lie in 80..180
extract_bpm_from_filename(filename) ==
    BpmOfGroups(<<Search(BpmPat1, filename), Search(BpmPat2, filename),
                  Search(BpmPat3, filename), Search(BpmPat4, filename),
                  Search(BpmPat5, filename), Search(BpmPat6, filename)>>)

\* get_compatible_keys with the wrap-around between 12 and 1 left out
get_compatible_keys_nowrap(key) ==
    IF key \notin CAMELOT_WHEEL
    THEN <<key>>
    ELSE LET num    == ParseInt(SubSeq(key, 1, Len(key) - 1))
             letter == key[Len(key)]
         IN  << key,
                FormatInt(num) \o <<IF letter = "A" THEN "B" ELSE "A">>,
                FormatInt(num + 1) \o <<letter>>,
                FormatInt(num - 1) \o <<letter>> >>

\* get_compatible_keys: the list [key, relative, next, previous]
get_compatible_keys(key) ==
    IF key \notin CAMELOT_WHEEL
    THEN <<key>>
    ELSE LET num      == ParseInt(SubSeq(key, 1, Len(key) - 1))
             letter   == key[Len(key)]
             next_num == IF num < 12 THEN num + 1 ELSE 1
             prev_num == IF num > 1 THEN num - 1 ELSE 12
         IN  << key,
                FormatInt(num) \o <<IF letter = "A" THEN "B" ELSE "A">>,
                FormatInt(next_num) \o <<letter>>,
                FormatInt(prev_num) \o <<letter>> >>

----------------------------------------------------------------------------
(* AudioSegment values are modelled by their length in milliseconds:       *)
(* len(a + b) = len(a) + len(b), a[:n] keeps min(len(a), n) ms, overlay    *)
(* keeps the length of the segment it is called on.                        *)

\* AudioSegment.empty()
EmptySegment == 0

\* AudioSegment.silent(duration=d)
Silent(d) == d

\* a + b
Concat(a, b) == a + b

\* a[:n]
SliceTo(a, n) == IF a < n THEN a ELSE n

\* base.overlay(seg)
Overlay(base, seg) == base

----------------------------------------------------------------------------
(* Tempo analysis (librosa) is an input: whether the file loads, and what  *)
(* each of the two estimators answers (<<t>>) or that it raises (<< >>).   *)

Raises == << >>

\* the canonical tempo grid
common_bpms == <<80, 85, 90, 95, 100, 105, 110, 115, 120,
                 122, 124, 126, 128, 130, 132, 135, 138,
                 140, 145, 150, 155, 160, 165, 170, 175, 180>>

Abs(x) == IF x < 0 THEN 0 - x ELSE x

\* octave correction; the result is returned doubled so that bpm / 2 stays exact
OctaveCorrect2(bpm) ==
    IF bpm < 80 THEN 2 * (bpm * 2)
    ELSE IF bpm > 180 THEN bpm
    ELSE 2 * bpm

\* min(common_bpms, key=lambda x: abs(x - bpm)): the first of the nearest
ClosestBpm(bpm2) ==
    LET d(i) == Abs(2 * common_bpms[i] - bpm2)
        i0   == CHOOSE i \in DOMAIN common_bpms :
                   /\ \A j \in DOMAIN common_bpms : d(i) <= d(j)
                   /\ \A j \in 1..(i - 1) : d(j) > d(i)
    IN  common_bpms[i0]

\* the analysis branch of get_bpm, lines 163-188: the tempo, or the
\* configured target tempo when the file does not load or both estimators raise
AnalysedBpm(outcome, target) ==
    IF ~outcome.loads THEN target
    ELSE IF outcome.primary # Raises THEN ClosestBpm(OctaveCorrect2(outcome.primary[1]))
    ELSE IF outcome.secondary # Raises THEN ClosestBpm(OctaveCorrect2(outcome.secondary[1]))
    ELSE target

\* Python truth of an "int or None" value
Truthy(x) == x # NoBpm /\ x # 0

\* d[k] = v
Put(d, k, v) == [x \in (DOMAIN d) \cup {k} |-> IF x = k THEN v ELSE d[x]]

\* a or b or c, for "int or None" values
FirstTruthy(a, b, c) == IF Truthy(a) THEN a ELSE IF Truthy(b) THEN b ELSE c

\* a cache hit, and a value resolved, stored and returned:
\* [cache: the cache afterwards, value: what is returned,
\*  ran: whether extraction (and analysis) ran]
Hit(cache, file_path) ==
    [cache |-> cache, value |-> cache[file_path], ran |-> FALSE]

Stored(cache, file_path, value) ==
    [cache |-> Put(cache, file_path, value), value |-> value, ran |-> TRUE]

\* lines 149-188: the file name, then the parent directory, then the analysis
ResolveBpm(target, file_path, outcome) ==
    FirstTruthy(extract_bpm_from_filename(Lower(Basename(file_path))),
                extract_bpm_from_filename(Lower(Basename(Dirname(file_path)))),
                AnalysedBpm(outcome, target))

\* get_bpm with the cache look-up left out: every call resolves again
get_bpm_uncached(cache, target, file_path, outcome) ==
    Stored(cache, file_path, ResolveBpm(target, file_path, outcome))

\* get_bpm
get_bpm(cache, target, file_path, outcome) ==
    IF file_path \in DOMAIN cache
    THEN Hit(cache, file_path)
    ELSE Stored(cache, file_path, ResolveBpm(target, file_path, outcome))

\* lines 196-200: the key of the file name, else that of the parent directory
KeyOrParent(from_name, from_parent) ==
    IF from_name = None \/ from_name = << >> THEN from_parent ELSE from_name

ResolveKey(file_path) ==
    KeyOrParent(extract_key_from_filename(Lower(Basename(file_path))),
                extract_key_from_filename(Lower(Basename(Dirname(file_path)))))

\* get_sample_key: as get_bpm; None is stored like any key
get_sample_key(cache, file_path) ==
    IF file_path \in DOMAIN cache
    THEN Hit(cache, file_path)
    ELSE Stored(cache, file_path, ResolveKey(file_path))

\* the elif chain of classify_samples, in its order
classify_keywords == <<
    <<"drums",   {<<"k", "i", "c", "k">>, <<"d", "r", "u", "m">>, <<"b", "d">>, <<"s", "d">>, <<"s", "n", "a", "r", "e">>, <<"h", "a", "t">>}>>,
    <<"bass",    {<<"b", "a", "s", "s">>, <<"s", "u", "b">>, <<"8", "0", "8">>, <<"l", "o", "w">>, <<"b", "a", "s", "s", "l", "i", "n", "e">>}>>,
    <<"melody",  {<<"m", "e", "l", "o", "d", "y">>, <<"l", "e", "a", "d">>, <<"s", "y", "n", "t", "h">>, <<"p", "l", "u", "c", "k">>, <<"a", "r", "p">>}>>,
    <<"harmony", {<<"c", "h", "o", "r", "d">>, <<"p", "a", "d">>, <<"s", "t", "r", "i", "n", "g">>, <<"h", "a", "r", "m", "o", "n", "y">>, <<"s", "t", "a", "b", "s">>}>>,
    <<"fx",      {<<"f", "x">>, <<"e", "f", "f", "e", "c", "t">>, <<"i", "m", "p", "a", "c", "t">>, <<"s", "w", "e", "e", "p">>, <<"r", "i", "s", "e">>}>>,
    <<"vocals",  {<<"v", "o", "c", "a", "l">>, <<"v", "o", "i", "c", "e">>, <<"c", "h", "a", "n", "t">>, <<"s", "i", "n", "g">>, <<"v", "o", "x">>}>>,
    <<"loops",   {<<"l", "o", "o", "p">>, <<"g", "r", "o", "o", "v", "e">>, <<"f", "u", "l", "l">>, <<"m", "i", "x">>}>>
>>

Categories == {"drums", "bass", "melody", "harmony", "fx", "vocals", "loops", "other"}

\* the branches of the elif chain whose keyword test holds for filename
KeywordHits(filename) ==
    {k \in DOMAIN classify_keywords :
        \E word \in classify_keywords[k][2] : Contains(filename, word)}

Greatest(S) == CHOOSE k \in S : \A j \in S : k >= j

CategoryAmongLast(hits) ==
    IF hits = {} THEN "other" ELSE classify_keywords[Greatest(hits)][1]

\* the elif chain takes the first branch that holds, else 'other'
CategoryAmong(hits) ==
    IF hits = {} THEN "other" ELSE classify_keywords[Least(hits)][1]

\* the elif chain read from the bottom: the last matching category wins
CategoryOfLastMatch(sample) == CategoryAmongLast(KeywordHits(Lower(Basename(sample))))

\* the category one sample is appended to (lines 249-266)
CategoryOf(sample) == CategoryAmong(KeywordHits(Lower(Basename(sample))))

\* classify_samples: one pass over the samples; outcomes[i] is what analysing
\* samples[i] would give. [categories, bpm_cache, key_cache]
RECURSIVE ClassifyFrom(_, _, _, _, _, _, _)

\* line 266 for samples[i], whose tempo is b.value, key k.value and category
\* cat, and on to the next sample
ClassifyNext(i, samples, outcomes, target, categories, b, k, cat) ==
    ClassifyFrom(i + 1, samples, outcomes, target,
                 [categories EXCEPT ![cat] = Append(@, <<samples[i], b.value, k.value>>)],
                 b.cache, k.cache)

ClassifyFrom(i, samples, outcomes, target, categories, bcache, kcache) ==
    IF i > Len(samples)
    THEN [categories |-> categories, bpm_cache |-> bcache, key_cache |-> kcache]
    ELSE ClassifyNext(i, samples, outcomes, target, categories,
                      get_bpm(bcache, target, samples[i], outcomes[i]),
                      get_sample_key(kcache, samples[i]),
                      CategoryOf(samples[i]))

classify_samples(samples, outcomes, target, bcache, kcache) ==
    ClassifyFrom(1, samples, outcomes, target,
                 [c \in Categories |-> << >>], bcache, kcache)

----------------------------------------------------------------------------
(* The state after MusicMixer(samples_dir) with the default arguments, and  *)
(* no call running.                                                         *)

NoCall == [op |-> "none"]

DefaultInstance ==
    /\ samples_dir = <<"l", "i", "b">>
    /\ target_bpm = 128
    /\ current_key = <<"8", "A">>
    /\ experimental_mode = FALSE
    /\ bpm_cache = << >>
    /\ key_cache = << >>

\* all concatenations of n tokens
RECURSIVE TokenStrings(_, _)
TokenStrings(tokens, n) ==
    IF n = 0 THEN {<< >>}
    ELSE {t \o r : t \in tokens, r \in TokenStrings(tokens, n - 1)}

\* all strings of length n over chars
RECURSIVE CharStrings(_, _)
CharStrings(chars, n) ==
    IF n = 0 THEN {<< >>}
    ELSE {<<c>> \o r : c \in chars, r \in CharStrings(chars, n - 1)}

----------------------------------------------------------------------------
(* SpecKey: extract_key_from_filename applied to file names built from a    *)
(* few tokens.                                                              *)

MaxTokens == 4

KeyNameTokens == {<<"l", "e", "a", "d">>, <<"b", "a", "s", "s">>, <<"_">>, <<"-">>, <<" ">>, <<".", "w", "a", "v">>,
                  <<"8", "A">>, <<"1", "3", "A">>, <<"C", "m", "i", "n">>, <<"k", "e", "y">>}

\* the file names of at most n tokens
KeyFilenames(n) == UNION {TokenStrings(KeyNameTokens, k) : k \in 1..n}

InitKey ==
    /\ DefaultInstance
    /\ pc = "call"
    /\ \E f \in KeyFilenames(MaxTokens) : call = [op |-> "extract_key_from_filename", arg |-> f]
    /\ ret = None
    /\ loc = << >>

ExtractKey ==
    /\ pc = "call"
    /\ call.op = "extract_key_from_filename"
    /\ ret' = extract_key_from_filename(call.arg)
    /\ pc' = "done"
    /\ UNCHANGED <<samples_dir, target_bpm, current_key, experimental_mode, bpm_cache, key_cache,
                   call, loc>>

NextKey == ExtractKey

SpecKey == InitKey /\ [][NextKey]_vars

\* the separators of the claim: underscore, dash, space, dot
UsualSeparators == {"_", "-", " ", "."}

\* the valid Camelot codes that stand in f between separators (or the ends)
SetOffCodes(f) ==
    {Upper(SubSeq(f, i, i + n - 1)) : <<i, n>> \in
        {<<i, n>> \in (1..Len(f)) \X {2, 3} :
            /\ CamelotAt(f, i) = n
            /\ Upper(SubSeq(f, i, i + n - 1)) \in CAMELOT_WHEEL
            /\ (i = 1 \/ f[i - 1] \in UsualSeparators)
            /\ (i + n > Len(f) \/ f[i + n] \in UsualSeparators)}}

\* C2: extract_key("lead_8A.wav") = "8A", extract_key("bass_Cmin.wav") = "5A",
\* and a file name whose one valid Camelot code is set off by underscore, dash,
\* space or dot resolves to that code.
C2_ExtractKeyResolves ==
    (pc = "done" /\ call.op = "extract_key_from_filename") =>
        /\ (call.arg = <<"l", "e", "a", "d", "_", "8", "A", ".", "w", "a", "v">> => ret = <<"8", "A">>)
        /\ (call.arg = <<"b", "a", "s", "s", "_", "C", "m", "i", "n", ".", "w", "a", "v">> => ret = <<"5", "A">>)
        /\ \A k \in SetOffCodes(call.arg) : SetOffCodes(call.arg) = {k} => ret = k


----------------------------------------------------------------------------
(* SpecCompat: get_compatible_keys applied to None and to every short       *)
(* string of digits and letters.                                            *)

MaxKeyLen == 3

KeyChars == Digits \cup {"A", "B", "a"}

KeyArgs(n) == {None} \cup UNION {CharStrings(KeyChars, k) : k \in 0..n}

InitCompat ==
    /\ DefaultInstance
    /\ pc = "call"
    /\ \E k \in KeyArgs(MaxKeyLen) : call = [op |-> "get_compatible_keys", arg |-> k]
    /\ ret = << >>
    /\ loc = << >>

GetCompatibleKeys ==
    /\ pc = "call"
    /\ call.op = "get_compatible_keys"
    /\ ret' = get_compatible_keys(call.arg)
    /\ pc' = "done"
    /\ UNCHANGED <<samples_dir, target_bpm, current_key, experimental_mode, bpm_cache, key_cache,
                   call, loc>>

NextCompat == GetCompatibleKeys

SpecCompat == InitCompat /\ [][NextCompat]_vars

\* the written form of the wheel numbers 1..12, and of a code
WheelNumerals == <<<<"1">>, <<"2">>, <<"3">>, <<"4">>, <<"5">>, <<"6">>,
                   <<"7">>, <<"8">>, <<"9">>, <<"1", "0">>, <<"1", "1">>, <<"1", "2">>>>

Code(n, letter) == WheelNumerals[n] \o <<letter>>

OtherLetter(letter) == IF letter = "A" THEN "B" ELSE "A"

\* C3: for each of the 24 codes (n, letter) the result is exactly the key, its
\* relative (n, other letter) and its neighbours (n+1 and n-1, wrapping between
\* 12 and 1); at most 4 members, the key among them; "8A" gives
\* {8A, 8B, 7A, 9A}, "1A" includes "12A"; any other key, None included, gives
\* exactly {key}.
C3_CompatibleKeys ==
    (pc = "done" /\ call.op = "get_compatible_keys") =>
        LET key    == call.arg
            result == Range(ret)
        IN  /\ \A n \in 1..12, letter \in {"A", "B"} :
                 key = Code(n, letter) =>
                    /\ result = { key,
                                  Code(n, OtherLetter(letter)),
                                  Code(IF n = 12 THEN 1 ELSE n + 1, letter),
                                  Code(IF n = 1 THEN 12 ELSE n - 1, letter) }
                    /\ Cardinality(result) <= 4
                    /\ key \in result
            /\ key = <<"8", "A">> => result = {<<"8", "A">>, <<"8", "B">>, <<"7", "A">>, <<"9", "A">>}
            /\ key = <<"1", "A">> => <<"1", "2", "A">> \in result
            /\ (\A n \in 1..12, letter \in {"A", "B"} : key # Code(n, letter))
                  => ret = <<key>>

\* C3 witness: the wrap-around neighbour of "1A" has been computed
C3_Witness ==
    /\ pc = "done"
    /\ call = [op |-> "get_compatible_keys", arg |-> <<"1", "A">>]
    /\ <<"1", "2", "A">> \in Range(ret)
    /\ <<"2", "A">> \in Range(ret)

----------------------------------------------------------------------------
(* SpecCache: any sequence of get_bpm and get_sample_key calls on a few     *)
(* paths, the analysis answering anything at each call, with target_bpm     *)
(* reassigned in between.                                                   *)

\* tempos target_bpm is configured with: below, inside and above 80..180
TargetBpms == {60, 128, 200}

\* tempos an estimator may answer
RawTempos == {40, 250}

AnalysisOutcomes ==
    {[loads |-> FALSE, primary |-> Raises, secondary |-> Raises],
     [loads |-> TRUE, primary |-> Raises, secondary |-> Raises]}
    \cup {[loads |-> TRUE, primary |-> <<t>>, secondary |-> Raises] : t \in RawTempos}
    \cup {[loads |-> TRUE, primary |-> Raises, secondary |-> <<t>>] : t \in RawTempos}

CachePaths == {<<"s", "e", "t", "_", "1", "4", "0", "/", "l", "e", "a", "d", "_", "8", "A", ".", "w", "a", "v">>, <<"8", "a", "/", "p", "a", "d", ".", "w", "a", "v">>, <<"l", "o", "o", "p", "s", "/", "b", "a", "s", "s", "-", "C", "m", "i", "n", ".", "w", "a", "v">>}

InitCache ==
    /\ samples_dir = <<"l", "i", "b">>
    /\ target_bpm \in TargetBpms
    /\ current_key = <<"8", "A">>
    /\ experimental_mode = FALSE
    /\ bpm_cache = << >>
    /\ key_cache = << >>
    /\ pc = "idle"
    /\ call = NoCall
    /\ ret = None
    /\ loc = [ran |-> FALSE]

\* mixer.get_bpm(p)
GetBpm ==
    \E p \in CachePaths, o \in AnalysisOutcomes :
        \E r \in {get_bpm(bpm_cache, target_bpm, p, o)} :
            /\ pc = "idle"
            /\ bpm_cache' = r.cache
            /\ ret' = r.value
            /\ loc' = [ran |-> r.ran]
            /\ call' = [op |-> "get_bpm", arg |-> p]
            /\ UNCHANGED <<samples_dir, target_bpm, current_key, experimental_mode, key_cache, pc>>

\* mixer.get_sample_key(p)
GetSampleKey ==
    \E p \in CachePaths :
        \E r \in {get_sample_key(key_cache, p)} :
            /\ pc = "idle"
            /\ key_cache' = r.cache
            /\ ret' = r.value
            /\ loc' = [ran |-> r.ran]
            /\ call' = [op |-> "get_sample_key", arg |-> p]
            /\ UNCHANGED <<samples_dir, target_bpm, current_key, experimental_mode, bpm_cache, pc>>

\* mixer.target_bpm = t
SetTargetBpm ==
    \E t \in TargetBpms :
        /\ pc = "idle"
        /\ target_bpm' = t
        /\ call' = [op |-> "set_target_bpm", arg |-> t]
        /\ ret' = None
        /\ loc' = [ran |-> FALSE]
        /\ UNCHANGED <<samples_dir, current_key, experimental_mode, bpm_cache, key_cache, pc>>

NextCache == GetBpm \/ GetSampleKey \/ SetTargetBpm

SpecCache == InitCache /\ [][NextCache]_vars

\* C1: every tempo get_bpm returns, and so every tempo in bpm_cache, lies in
\* 80..180, whatever the path, the analysis outcome and target_bpm.
C1_TempoInRange ==
    /\ \A p \in DOMAIN bpm_cache : 80 <= bpm_cache[p] /\ bpm_cache[p] <= 180
    /\ call.op = "get_bpm" => (80 <= ret /\ ret <= 180)

\* C7: an entry of bpm_cache or key_cache is never overwritten or removed; a
\* call for a cached path returns the cached value without running extraction
\* or analysis, also when the cached key is None.
C7_WriteOnce ==
    [][ /\ \A p \in DOMAIN bpm_cache :
              p \in DOMAIN bpm_cache' /\ bpm_cache'[p] = bpm_cache[p]
        /\ \A p \in DOMAIN key_cache :
              p \in DOMAIN key_cache' /\ key_cache'[p] = key_cache[p]
        /\ (call'.op = "get_bpm" /\ call'.arg \in DOMAIN bpm_cache) =>
              (ret' = bpm_cache[call'.arg] /\ ~loc'.ran)
        /\ (call'.op = "get_sample_key" /\ call'.arg \in DOMAIN key_cache) =>
              (ret' = key_cache[call'.arg] /\ ~loc'.ran)
      ]_vars

\* C7 witness: a cached None key was served as a hit, while bpm_cache still
\* holds a fallback tempo written under an earlier target_bpm
C7_Witness ==
    /\ call.op = "get_sample_key"
    /\ ~loc.ran
    /\ ret = None
    /\ key_cache[call.arg] = None
    /\ \E p \in DOMAIN bpm_cache :
          bpm_cache[p] # target_bpm /\ bpm_cache[p] \notin Range(common_bpms)

----------------------------------------------------------------------------
(* SpecClassify: classify_samples applied to every list of at most          *)
(* MaxSamples of the paths below (repetitions allowed), on a fresh          *)
(* instance, the analysis answering anything for each sample.               *)

MaxSamples == 2

ClassifyPaths == {
    <<"k", "i", "c", "k", "_", "8", "0", "8", "_", "1", "2", "8", "b", "p", "m", ".", "w", "a", "v">>, <<"8", "0", "8", "_", "K", "i", "c", "k", ".", "w", "a", "v">>, <<"S", "u", "b", "L", "e", "a", "d", ".", "w", "a", "v">>, <<"p", "a", "d", "_", "a", "r", "p", ".", "w", "a", "v">>,
    <<"f", "x", "_", "c", "h", "o", "r", "d", ".", "w", "a", "v">>, <<"v", "o", "x", "_", "s", "w", "e", "e", "p", ".", "w", "a", "v">>, <<"l", "o", "o", "p", "_", "s", "i", "n", "g", ".", "w", "a", "v">>, <<"f", "u", "l", "l", "_", "m", "i", "x", ".", "w", "a", "v">>,
    <<"d", "r", "u", "m", "s", "/", "p", "a", "d", ".", "w", "a", "v">>, <<"t", "e", "x", "t", "u", "r", "e", ".", "w", "a", "v">>, <<"B", "a", "s", "s", " ", "8", "A", ".", "w", "a", "v">>, <<"c", "h", "a", "n", "t", ".", "w", "a", "v">>
}

ClassifyOutcomes ==
    {[loads |-> FALSE, primary |-> Raises, secondary |-> Raises],
     [loads |-> TRUE, primary |-> <<250>>, secondary |-> Raises]}

\* all lists of length n over S
RECURSIVE Lists(_, _)
Lists(S, n) ==
    IF n = 0 THEN {<< >>}
    ELSE {<<x>> \o r : x \in S, r \in Lists(S, n - 1)}

InitClassify ==
    /\ DefaultInstance
    /\ pc = "call"
    /\ \E n \in 0..MaxSamples : \E samples \in Lists(ClassifyPaths, n) :
          call = [op |-> "classify_samples", arg |-> samples]
    /\ ret = << >>
    /\ loc = << >>

\* mixer.classify_samples(samples)
ClassifySamples ==
    /\ pc = "call"
    /\ call.op = "classify_samples"
    /\ \E outcomes \in [DOMAIN call.arg -> ClassifyOutcomes] :
         \E r \in {classify_samples(call.arg, outcomes, target_bpm, bpm_cache, key_cache)} :
            /\ ret' = r.categories
            /\ bpm_cache' = r.bpm_cache
            /\ key_cache' = r.key_cache
    /\ pc' = "done"
    /\ UNCHANGED <<samples_dir, target_bpm, current_key, experimental_mode, call, loc>>

NextClassify == ClassifySamples

SpecClassify == InitClassify /\ [][NextClassify]_vars

\* the priority order as the claim gives it, and the keywords of a category
ClaimedPriority == <<"drums", "bass", "melody", "harmony", "fx", "vocals", "loops">>

KeywordsOf(c) ==
    classify_keywords[CHOOSE k \in DOMAIN classify_keywords : classify_keywords[k][1] = c][2]

\* the first claimed category, from the i-th on, with a keyword in name
RECURSIVE ClaimedFrom(_, _)
ClaimedFrom(name, i) ==
    IF i > Len(ClaimedPriority) THEN "other"
    ELSE IF \E word \in KeywordsOf(ClaimedPriority[i]) : Contains(name, word)
    THEN ClaimedPriority[i]
    ELSE ClaimedFrom(name, i + 1)

ClaimedCategory(sample) == ClaimedFrom(Lower(Basename(sample)), 1)

\* number of positions of list at which P holds
Count(list, P(_)) == Cardinality({i \in DOMAIN list : P(list[i])})

RECURSIVE SumLen(_, _)
SumLen(buckets, cs) ==
    IF cs = {} THEN 0
    ELSE LET c == CHOOSE x \in cs : TRUE
         IN  Len(buckets[c]) + SumLen(buckets, cs \ {c})

\* C6: every sample is in exactly one of the 8 buckets, the first category in
\* the order drums, bass, melody, harmony, fx, vocals, loops with a keyword in
\* the lower-cased file name, else 'other'; "kick_808_128bpm.wav" is in drums
\* and not in bass; the buckets hold as many entries as there were samples.
C6_Classification ==
    (pc = "done" /\ call.op = "classify_samples") =>
        LET samples == call.arg
        IN  /\ DOMAIN ret = Categories
            /\ Cardinality(Categories) = 8
            /\ SumLen(ret, Categories) = Len(samples)
            /\ \A s \in Range(samples) :
                 LET IsS(e)  == e[1] = s
                     Same(x) == x = s
                     claimed == ClaimedCategory(s)
                 IN  \A c \in Categories :
                        Count(ret[c], IsS) =
                           IF c = claimed THEN Count(samples, Same) ELSE 0
            /\ \A e \in Range(ret["bass"]) : e[1] # <<"k", "i", "c", "k", "_", "8", "0", "8", "_", "1", "2", "8", "b", "p", "m", ".", "w", "a", "v">>
            /\ <<"k", "i", "c", "k", "_", "8", "0", "8", "_", "1", "2", "8", "b", "p", "m", ".", "w", "a", "v">> \in Range(samples) =>
                 \E e \in Range(ret["drums"]) : e[1] = <<"k", "i", "c", "k", "_", "8", "0", "8", "_", "1", "2", "8", "b", "p", "m", ".", "w", "a", "v">>

\* C6 witness: "kick_808_128bpm.wav" classified as drums next to a bass sample
C6_Witness ==
    /\ pc = "done"
    /\ call.op = "classify_samples"
    /\ Len(call.arg) = 2
    /\ \E e \in Range(ret["drums"]) : e[1] = <<"k", "i", "c", "k", "_", "8", "0", "8", "_", "1", "2", "8", "b", "p", "m", ".", "w", "a", "v">>
    /\ Len(ret["bass"]) = 1

----------------------------------------------------------------------------
(* The sample library: the files os.walk meets, a directory's own files     *)
(* before those of its subdirectories. For each,                            *)
(* what AudioSegment.from_file gives (its length in ms, or Raises), its     *)
(* frame rate, and what the tempo analysis would answer.                    *)

Unloadable == [loads |-> FALSE, primary |-> Raises, secondary |-> Raises]

FileSystem == <<
    [path |-> <<"l", "i", "b", "/", "b", "a", "s", "s", "-", "8", "A", ".", "w", "a", "v">>, audio |-> <<4000>>, frame_rate |-> 44100,
     analysis |-> [loads |-> TRUE, primary |-> Raises, secondary |-> <<250>>]],
    [path |-> <<"l", "i", "b", "/", "b", "a", "s", "s", "-", "3", "B", " ", "(", "9", "0", ")", ".", "w", "a", "v">>, audio |-> <<8000>>, frame_rate |-> 44100,
     analysis |-> [loads |-> TRUE, primary |-> <<90>>, secondary |-> Raises]],
    [path |-> <<"l", "i", "b", "/", "n", "o", "t", "e", "s", ".", "t", "x", "t">>, audio |-> Raises, frame_rate |-> 44100,
     analysis |-> Unloadable],
    [path |-> <<"l", "i", "b", "/", "d", "r", "u", "m", "s", "/", "k", "i", "c", "k", "_", "1", "2", "8", "b", "p", "m", "-", "3", "B", ".", "w", "a", "v">>, audio |-> <<8000>>, frame_rate |-> 44100,
     analysis |-> [loads |-> TRUE, primary |-> <<128>>, secondary |-> Raises]],
    [path |-> <<"l", "i", "b", "/", "d", "r", "u", "m", "s", "/", "s", "n", "a", "r", "e", "-", "8", "A", ".", "w", "a", "v">>, audio |-> <<8000>>, frame_rate |-> 44100,
     analysis |-> [loads |-> TRUE, primary |-> Raises, secondary |-> Raises]],
    [path |-> <<"l", "i", "b", "/", "s", "e", "t", "_", "1", "4", "0", "/", "L", "e", "a", "d", " ", "2", "A", ".", "W", "A", "V">>, audio |-> <<4000>>, frame_rate |-> 22050,
     analysis |-> [loads |-> TRUE, primary |-> <<70>>, secondary |-> Raises]],
    [path |-> <<"l", "i", "b", "/", "b", "r", "o", "k", "e", "n", "/", "c", "h", "o", "r", "d", ".", "w", "a", "v">>, audio |-> Raises, frame_rate |-> 44100,
     analysis |-> Unloadable],
    [path |-> <<"d", "o", "c", "s", "/", "r", "e", "a", "d", "m", "e", ".", "t", "x", "t">>, audio |-> Raises, frame_rate |-> 44100,
     analysis |-> Unloadable],
    [path |-> <<"e", "m", "p", "t", "y", "/", "r", "i", "s", "e", ".", "w", "a", "v">>, audio |-> <<0>>, frame_rate |-> 44100,
     analysis |-> [loads |-> TRUE, primary |-> Raises, secondary |-> Raises]]
>>

FileInfo(path) == FileSystem[CHOOSE k \in DOMAIN FileSystem : FileSystem[k].path = path]

\* s.startswith(prefix)
StartsWith(s, prefix) ==
    /\ Len(prefix) <= Len(s)
    /\ SubSeq(s, 1, Len(prefix)) = prefix

\* the files os.walk(search_dir) yields, joined to their directory
Walk(search_dir) ==
    LET under(f) == StartsWith(f.path, search_dir \o <<"/">>)
        found    == SelectSeq(FileSystem, under)
    IN  [k \in DOMAIN found |-> found[k].path]

AudioExtensions == {<<".", "w", "a", "v">>, <<".", "m", "p", "3">>, <<".", "f", "l", "a", "c">>, <<".", "a", "i", "f", "f">>}

IsAudioFile(path) ==
    \E ext \in AudioExtensions : EndsWith(Lower(Basename(path)), ext)

\* get_all_samples
get_all_samples(default_dir, custom_dir) ==
    LET search_dir == IF custom_dir # None /\ custom_dir # << >>
                      THEN custom_dir ELSE default_dir
    IN  SelectSeq(Walk(search_dir), IsAudioFile)

----------------------------------------------------------------------------
(* create_multilayer_composition *)

priority_order == <<"drums", "bass", "melody", "harmony", "vocals", "fx", "loops", "other">>

\* the probability tables, in tenths
STANDARD_PROBABILITIES ==
    [drums |-> 9, bass |-> 8, melody |-> 7, harmony |-> 6,
     vocals |-> 4, fx |-> 3, loops |-> 5, other |-> 2]

EXPERIMENTAL_PROBABILITIES ==
    [drums |-> 6, bass |-> 5, melody |-> 8, harmony |-> 7,
     vocals |-> 6, fx |-> 8, loops |-> 4, other |-> 9]

\* random.random(), in tenths
RandomDraws == 0..9

\* the volume ranges, in hundredths
volume_ranges ==
    [drums |-> <<40, 90>>, bass |-> <<30, 80>>, melody |-> <<20, 70>>,
     harmony |-> <<20, 60>>, fx |-> <<10, 80>>, vocals |-> <<30, 80>>,
     loops |-> <<20, 70>>, other |-> <<10, 90>>]

\* random.uniform(lo, hi): the two ends of the range
VolumeDraws(category) == {volume_ranges[category][1], volume_ranges[category][2]}

\* line 300: the category has samples
HasSamples(categories, category) == categories[category] # << >>

\* lines 300-302: the category becomes a candidate on the draw r
Included(categories, probabilities, category, r) ==
    HasSamples(categories, category) /\ r < probabilities[category]

\* lines 304-306 with the fallback left out
FallbackMissing(available, categories) == available

\* lines 304-306: without candidates, every category that has samples
Fallback(available, categories) ==
    IF available = << >>
    THEN LET has(c) == HasSamples(categories, c)
         IN  SelectSeq(priority_order, has)
    ELSE available

Min(a, b) == IF a < b THEN a ELSE b

\* random.sample(population, k): every list of k different members
RandomSample(population, k) ==
    {s \in Lists(Range(population), k) :
        \A a, b \in DOMAIN s : a # b => s[a] # s[b]}

\* line 331 with every category exempt from the key filter
BypassesKeyFilterAlways(category) == TRUE

\* line 331: the categories exempt from the key filter
BypassesKeyFilter(category) == category \in {"drums", "fx", "other"}

\* lines 324-337: the samples the choice is made among
SamplesToUse(category, bucket, compatible_keys) ==
    LET ok(e) == \/ BypassesKeyFilter(category)
                 \/ e[3] = None
                 \/ e[3] \in Range(compatible_keys)
        compatible_samples == SelectSeq(bucket, ok)
    IN  IF compatible_samples # << >> THEN compatible_samples ELSE bucket

\* lines 208-210: ideal_length = 60000 / target_bpm * 4 * 4; the tempos used
\* divide 960000, so the division is exact
IdealLength(bpm) == ((60000 * 4) * 4) \div bpm

\* line 214: current_length < ideal_length
ShorterThanIdeal(length, bpm) == bpm > 0 /\ length < IdealLength(bpm)

\* change_tempo: the audio at new_sample_rate = int(frame_rate * target / current)
\* and resampled back; the original when equal, non-positive or failing
change_tempo(audio, frame_rate, current, target) ==
    IF current = target \/ current <= 0 THEN audio
    ELSE LET new_sample_rate == (frame_rate * target) \div current
         IN  IF new_sample_rate <= 0 THEN audio
             ELSE (audio * frame_rate) \div new_sample_rate

\* lines 346-347
TempoAdjusted(audio, frame_rate, original_bpm, target) ==
    IF original_bpm > 0 /\ Abs(original_bpm - target) > 1
    THEN change_tempo(audio, frame_rate, original_bpm, target)
    ELSE audio

----------------------------------------------------------------------------
(* generate_mix_audio and generate_complete_mix *)

\* line 376 with the guard left out
RejectsNoLayers(layers) == FALSE

\* line 376: if not layers
RejectsLayers(layers) == layers = << >>

\* line 411 with the guard left out
CompositionAlwaysAccepted(layers) == FALSE

\* line 411: if not layers
CompositionFailed(layers) == layers = << >>

\* line 380 with the default duration in place of the argument
CanvasOfDefaultLength(duration_ms) == Silent(30000)

\* line 380: the canvas
Canvas(duration_ms) == Silent(duration_ms)

\* line 392 with the cut left out
LoopUncut(looped_audio, duration_ms) == looped_audio

\* line 392: looped_audio[:duration_ms]
LoopCut(looped_audio, duration_ms) == SliceTo(looped_audio, duration_ms)

\* line 384: math.log10 is defined for volume > 0
GainDefined(volume) == volume > 0

\* the locals of a call before it runs
NoLocals ==
    [samples |-> << >>, categories |-> [c \in Categories |-> << >>],
     i |-> 0, available |-> << >>, fallback_used |-> FALSE,
     selected |-> << >>, j |-> 0, picks |-> << >>, pick |-> << >>,
     layers |-> << >>, composed |-> FALSE,
     audio |-> EmptySegment, bpm |-> 0, looped |-> EmptySegment,
     duration_ms |-> 0, mix |-> << >>, l |-> 0, mix_called |-> FALSE,
     exported |-> << >>]

----------------------------------------------------------------------------
(* Spec: one call of generate_complete_mix, of generate_mix_audio or of     *)
(* optimize_audio_length on a fresh instance, followed step by step: the    *)
(* random draws and the two repeat-append loops are steps of their own.     *)

MaxLayers == 2

\* values given for custom_samples_dir
CustomDirs == {None, <<"d", "o", "c", "s">>, <<"e", "m", "p", "t", "y">>, <<"l", "i", "b", "/", "s", "e", "t", "_", "1", "4", "0">>}

\* values given for current_key
CurrentKeys == {<<"8", "A">>, None}

\* layers handed to generate_mix_audio directly: audio lengths and volumes
MixAudioLengths == {0, 7000, 8000}

MixVolumes == {0, 50}

MixLayers == [audio : MixAudioLengths, volume : MixVolumes]

Durations == {0, 7000, 30000}

NoResult == [status |-> "none"]

Raised(message) == [status |-> "raised", message |-> message]

Returned(value) == [status |-> "returned", value |-> value]

Init ==
    /\ samples_dir = <<"l", "i", "b">>
    /\ target_bpm \in TargetBpms
    /\ current_key \in CurrentKeys
    /\ experimental_mode \in BOOLEAN
    /\ bpm_cache = << >>
    /\ key_cache = << >>
    /\ pc = "idle"
    /\ call = NoCall
    /\ ret = NoResult
    /\ loc = NoLocals

config == <<samples_dir, target_bpm, current_key, experimental_mode>>

\* generate_mix_audio, lines 376-380: reject an empty list, else the canvas
EnterMix(layers, duration_ms, locals) ==
    IF RejectsLayers(layers)
    THEN /\ pc' = "raised"
         /\ ret' = Raised("No layers to mix")
         /\ loc' = [locals EXCEPT !.mix_called = TRUE, !.layers = layers,
                                  !.duration_ms = duration_ms]
    ELSE /\ pc' = "mix"
         /\ ret' = ret
         /\ loc' = [locals EXCEPT !.mix_called = TRUE, !.layers = layers,
                                  !.duration_ms = duration_ms,
                                  !.mix = <<Canvas(duration_ms)>>, !.l = 1]

\* generate_complete_mix(num_layers, custom_samples_dir) up to the end of
\* classify_samples (lines 405-409 and 273-297)
StartCompleteMix ==
    /\ pc = "idle"
    /\ \E n \in 0..MaxLayers, d \in CustomDirs :
         /\ call' = [op |-> "generate_complete_mix", num_layers |-> n,
                     custom_samples_dir |-> d]
         /\ \E samples \in {get_all_samples(samples_dir, d)} :
              IF samples = << >>
              THEN /\ pc' = "raised"
                   /\ ret' = Raised("No audio files found")
                   /\ loc' = loc
                   /\ UNCHANGED <<bpm_cache, key_cache>>
              ELSE \E r \in {classify_samples(samples,
                                [k \in DOMAIN samples |-> FileInfo(samples[k]).analysis],
                                target_bpm, bpm_cache, key_cache)} :
                   /\ pc' = "include"
                   /\ ret' = ret
                   /\ loc' = [loc EXCEPT !.samples = samples,
                                         !.categories = r.categories, !.i = 1]
                   /\ bpm_cache' = r.bpm_cache
                   /\ key_cache' = r.key_cache
    /\ UNCHANGED config

\* one turn of the loop of lines 299-302
IncludeCategory ==
    /\ pc = "include"
    /\ loc.i <= Len(priority_order)
    /\ LET category      == priority_order[loc.i]
           probabilities == IF experimental_mode THEN EXPERIMENTAL_PROBABILITIES
                            ELSE STANDARD_PROBABILITIES
       IN  \E r \in RandomDraws :
              loc' = [loc EXCEPT
                        !.i = @ + 1,
                        !.available =
                            IF Included(loc.categories, probabilities, category, r)
                            THEN Append(@, category) ELSE @]
    /\ UNCHANGED <<config, bpm_cache, key_cache, pc, call, ret>>

\* lines 304-312: the fallback, the early return and random.sample
SampleCategories ==
    /\ pc = "include"
    /\ loc.i > Len(priority_order)
    /\ \E available \in {Fallback(loc.available, loc.categories)} :
         \E selected \in RandomSample(available, Min(call.num_layers, Len(available))) :
            loc' = [loc EXCEPT !.available = available,
                               !.fallback_used = (loc.available = << >>),
                               !.selected = selected, !.j = 1]
    /\ pc' = "layers"
    /\ UNCHANGED <<config, bpm_cache, key_cache, call, ret>>

\* lines 322-343: the choice of a sample of the next selected category and
\* its decoding; a failure abandons the layer (line 369)
ChooseSample ==
    /\ pc = "layers"
    /\ loc.j <= Len(loc.selected)
    /\ LET category == loc.selected[loc.j]
           to_use   == SamplesToUse(category, loc.categories[category],
                                    get_compatible_keys(current_key))
       IN  \E k \in DOMAIN to_use :
              LET pick    == to_use[k]
                  decoded == FileInfo(pick[1]).audio
              IN  IF decoded = Raises \/ target_bpm = 0
                  THEN /\ pc' = "layers"
                       /\ loc' = [loc EXCEPT
                                    !.j = @ + 1,
                                    !.picks = Append(@, [category |-> category,
                                                         sample |-> pick, error |-> TRUE])]
                  ELSE /\ pc' = "optimize"
                       /\ loc' = [loc EXCEPT
                                    !.pick = pick, !.audio = decoded[1],
                                    !.bpm = target_bpm,
                                    !.picks = Append(@, [category |-> category,
                                                         sample |-> pick, error |-> FALSE])]
    /\ UNCHANGED <<config, bpm_cache, key_cache, call, ret>>

\* return of optimize_audio_length: to its caller, or to line 346
OptimizeReturn(audio) ==
    IF call.op = "optimize_audio_length"
    THEN /\ pc' = "done"
         /\ ret' = Returned(audio)
         /\ loc' = [loc EXCEPT !.audio = audio]
    ELSE /\ pc' = "finish_layer"
         /\ ret' = ret
         /\ loc' = [loc EXCEPT !.audio = audio]

\* MusicMixer.optimize_audio_length(audio, target_bpm), called directly
StartOptimize ==
    /\ pc = "idle"
    /\ \E audio \in MixAudioLengths, bpm \in TargetBpms :
         /\ call' = [op |-> "optimize_audio_length", audio |-> audio, target_bpm |-> bpm]
         /\ loc' = [loc EXCEPT !.audio = audio, !.bpm = bpm]
    /\ pc' = "optimize"
    /\ UNCHANGED <<config, bpm_cache, key_cache, ret>>

\* optimize_audio_length, lines 208-215 and 220
OptimizeAudioLength ==
    /\ pc = "optimize"
    /\ IF ShorterThanIdeal(loc.audio, loc.bpm)
       THEN /\ pc' = "optimize_loop"
            /\ ret' = ret
            /\ loc' = [loc EXCEPT !.looped = EmptySegment]
       ELSE OptimizeReturn(loc.audio)
    /\ UNCHANGED <<config, bpm_cache, key_cache, call>>

\* optimize_audio_length, line 216: the test of the while condition, and on
\* exit the cut of line 218
OptimizeLoopTest ==
    /\ pc = "optimize_loop"
    /\ IF loc.looped < IdealLength(loc.bpm)
       THEN /\ pc' = "optimize_append"
            /\ ret' = ret
            /\ loc' = loc
       ELSE OptimizeReturn(SliceTo(loc.looped, IdealLength(loc.bpm)))
    /\ UNCHANGED <<config, bpm_cache, key_cache, call>>

\* optimize_audio_length, line 217: looped += audio
OptimizeAppend ==
    /\ pc = "optimize_append"
    /\ pc' = "optimize_loop"
    /\ loc' = [loc EXCEPT !.looped = Concat(@, loc.audio)]
    /\ UNCHANGED <<config, bpm_cache, key_cache, call, ret>>

\* lines 346-367: tempo change, volume, the layer is appended
FinishLayer ==
    /\ pc = "finish_layer"
    /\ LET category == loc.selected[loc.j]
           pick     == loc.pick
           audio    == TempoAdjusted(loc.audio, FileInfo(pick[1]).frame_rate,
                                     pick[2], target_bpm)
       IN  \E volume \in VolumeDraws(category) :
              loc' = [loc EXCEPT
                        !.j = @ + 1,
                        !.layers = Append(@, [category |-> category, sample |-> pick[1],
                                              audio |-> audio, original_bpm |-> pick[2],
                                              key |-> pick[3], volume |-> volume])]
    /\ pc' = "layers"
    /\ UNCHANGED <<config, bpm_cache, key_cache, call, ret>>

\* line 372 and lines 411-415: the composition is returned; without layers
\* generate_complete_mix raises, else it calls generate_mix_audio(layers)
ReturnComposition ==
    /\ pc = "layers"
    /\ loc.j > Len(loc.selected)
    /\ IF CompositionFailed(loc.layers)
       THEN /\ pc' = "raised"
            /\ ret' = Raised("Could not create composition")
            /\ loc' = [loc EXCEPT !.composed = TRUE]
       ELSE EnterMix(loc.layers, 30000, [loc EXCEPT !.composed = TRUE])
    /\ UNCHANGED <<config, bpm_cache, key_cache, call>>

\* mixer.generate_mix_audio(layers, duration_ms), called directly
StartMixAudio ==
    /\ pc = "idle"
    /\ \E n \in 0..MaxLayers : \E layers \in Lists(MixLayers, n) : \E d \in Durations :
         /\ call' = [op |-> "generate_mix_audio", layers |-> layers, duration_ms |-> d]
         /\ EnterMix(layers, d, loc)
    /\ UNCHANGED <<config, bpm_cache, key_cache>>

\* lines 382-388: the next layer, its gain
MixLayer ==
    /\ pc = "mix"
    /\ loc.l <= Len(loc.layers)
    /\ IF GainDefined(loc.layers[loc.l].volume)
       THEN /\ pc' = "mix_loop"
            /\ ret' = ret
            /\ loc' = [loc EXCEPT !.looped = EmptySegment]
       ELSE /\ pc' = "raised"
            /\ ret' = Raised("math domain error")
            /\ loc' = loc
    /\ UNCHANGED <<config, bpm_cache, key_cache, call>>

\* line 389: the test of the while condition, and on exit the cut and the
\* overlay of lines 392-395
MixLoopTest ==
    /\ pc = "mix_loop"
    /\ IF loc.looped < loc.duration_ms
       THEN /\ pc' = "mix_append"
            /\ loc' = loc
       ELSE /\ pc' = "mix"
            /\ \E cut \in {LoopCut(loc.looped, loc.duration_ms)} :
                  loc' = [loc EXCEPT !.looped = cut,
                                     !.mix = <<Overlay(loc.mix[1], cut)>>,
                                     !.l = @ + 1]
    /\ UNCHANGED <<config, bpm_cache, key_cache, call, ret>>

\* line 390: looped_audio += audio_with_gain
MixAppend ==
    /\ pc = "mix_append"
    /\ pc' = "mix_loop"
    /\ loc' = [loc EXCEPT !.looped = Concat(@, loc.layers[loc.l].audio)]
    /\ UNCHANGED <<config, bpm_cache, key_cache, call, ret>>

\* lines 397-401: the canvas is exported
Export ==
    /\ pc = "mix"
    /\ loc.l > Len(loc.layers)
    /\ pc' = "done"
    /\ loc' = [loc EXCEPT !.exported = <<loc.mix[1]>>]
    /\ ret' = Returned(<<"mix.wav">>)
    /\ UNCHANGED <<config, bpm_cache, key_cache, call>>

Next ==
    \/ StartCompleteMix
    \/ IncludeCategory
    \/ SampleCategories
    \/ ChooseSample
    \/ StartOptimize
    \/ OptimizeAudioLength
    \/ OptimizeLoopTest
    \/ OptimizeAppend
    \/ FinishLayer
    \/ ReturnComposition
    \/ StartMixAudio
    \/ MixLayer
    \/ MixLoopTest
    \/ MixAppend
    \/ Export

Spec == Init /\ [][Next]_vars

\* C4: the canvas is allocated and an artifact exported only with at least one
\* layer; generate_complete_mix raises "No audio files found" on an empty scan
\* and "Could not create composition" when no layer survives, without calling
\* generate_mix_audio; generate_mix_audio([]) raises before the canvas exists.
C4_AbortsWithoutLayers ==
    /\ (loc.mix # << >> \/ loc.exported # << >>) => Len(loc.layers) >= 1
    /\ (call.op = "generate_complete_mix" /\ loc.samples = << >>) =>
          /\ pc = "raised"
          /\ ret = Raised("No audio files found")
          /\ ~loc.mix_called /\ loc.mix = << >> /\ loc.exported = << >>
    /\ (call.op = "generate_complete_mix" /\ loc.composed /\ loc.layers = << >>) =>
          /\ pc = "raised"
          /\ ret = Raised("Could not create composition")
          /\ ~loc.mix_called /\ loc.mix = << >> /\ loc.exported = << >>
    /\ (call.op = "generate_mix_audio" /\ call.layers = << >>) =>
          /\ pc = "raised"
          /\ ret = Raised("No layers to mix")
          /\ loc.mix = << >> /\ loc.exported = << >>

\* C4 witness: categories were selected, every chosen sample failed to decode,
\* and generate_complete_mix raised
C4_Witness ==
    /\ call.op = "generate_complete_mix"
    /\ pc = "raised"
    /\ loc.composed
    /\ Len(loc.picks) >= 1
    /\ loc.layers = << >>

PitchedCategories == {"bass", "melody", "harmony", "vocals", "loops"}

\* the samples of a bucket whose key is absent or compatible with current_key
KeyCompatible(bucket) ==
    {e \in Range(bucket) : e[3] = None \/ e[3] \in Range(get_compatible_keys(current_key))}

\* C8: the sample chosen for a layer is one of its category's bucket; for a
\* pitched category whose bucket holds a sample with an absent or compatible
\* key, the chosen sample's key is absent or compatible.
C8_CompatibleChoice ==
    \A k \in DOMAIN loc.picks :
        LET p      == loc.picks[k]
            bucket == loc.categories[p.category]
        IN  /\ p.sample \in Range(bucket)
            /\ (p.category \in PitchedCategories /\ KeyCompatible(bucket) # {}) =>
                  p.sample \in KeyCompatible(bucket)

\* C8 witness: a bass sample was chosen out of a bucket that also holds an
\* incompatible one, and a drums sample with an incompatible key was chosen
\* although the drums bucket holds a compatible one
C8_Witness ==
    /\ \E k \in DOMAIN loc.picks :
          /\ loc.picks[k].category = "bass"
          /\ Range(loc.categories["bass"]) \ KeyCompatible(loc.categories["bass"]) # {}
          /\ loc.picks[k].sample \in KeyCompatible(loc.categories["bass"])
    /\ \E k \in DOMAIN loc.picks :
          /\ loc.picks[k].category = "drums"
          /\ KeyCompatible(loc.categories["drums"]) # {}
          /\ loc.picks[k].sample \notin KeyCompatible(loc.categories["drums"])

\* C9: once the candidates are fixed they are not empty and each has samples;
\* the composition returned has at most min(num_layers, candidates) layers of
\* different categories, and at least one when num_layers >= 1 and no chosen
\* sample failed.
C9_SelectionProgress ==
    call.op = "generate_complete_mix" =>
        /\ loc.j >= 1 =>
              /\ loc.samples # << >>
              /\ loc.available # << >>
              /\ \A c \in Range(loc.available) : loc.categories[c] # << >>
        /\ loc.composed =>
              /\ Len(loc.layers) <= Min(call.num_layers, Len(loc.available))
              /\ \A a, b \in DOMAIN loc.layers :
                    a # b => loc.layers[a].category # loc.layers[b].category
        /\ (/\ loc.composed
            /\ call.num_layers >= 1
            /\ \A k \in DOMAIN loc.picks : ~loc.picks[k].error) =>
              Len(loc.layers) >= 1

\* C9 witness: every inclusion draw failed, the fallback supplied the
\* candidates, and a composition with fewer layers than requested was returned
C9_Witness ==
    /\ call.op = "generate_complete_mix"
    /\ loc.composed
    /\ loc.fallback_used
    /\ Len(loc.layers) >= 1
    /\ Len(loc.layers) < call.num_layers
    /\ \A k \in DOMAIN loc.picks : ~loc.picks[k].error

----------------------------------------------------------------------------
(* SpecMix: the calls of generate_mix_audio and optimize_audio_length alone; *)
(* FairSpecMix adds that a running call keeps taking steps.                  *)

InitMix ==
    /\ DefaultInstance
    /\ pc = "idle"
    /\ call = NoCall
    /\ ret = NoResult
    /\ loc = NoLocals

NextMix ==
    \/ StartOptimize
    \/ OptimizeAudioLength
    \/ OptimizeLoopTest
    \/ OptimizeAppend
    \/ StartMixAudio
    \/ MixLayer
    \/ MixLoopTest
    \/ MixAppend
    \/ Export

SpecMix == InitMix /\ [][NextMix]_vars

FairSpecMix == SpecMix /\ WF_vars(NextMix)

\* C5: the canvas has the requested duration from its allocation to its
\* export, and every layer overlaid was cut to exactly that duration.
C5_RenderedDuration ==
    call.op = "generate_mix_audio" =>
        /\ loc.mix # << >> => loc.mix[1] = call.duration_ms
        /\ loc.exported # << >> => loc.exported[1] = call.duration_ms
        /\ (pc \in {"mix", "done"} /\ loc.l > 1) => loc.looped = call.duration_ms

\* C5 witness: two layers, one of a length that does not divide the duration,
\* were looped, cut and exported
C5_Witness ==
    /\ call.op = "generate_mix_audio"
    /\ pc = "done"
    /\ Len(call.layers) = 2
    /\ \E k \in DOMAIN call.layers :
          call.layers[k].audio > 0 /\ call.duration_ms % call.layers[k].audio # 0
    /\ loc.exported = <<call.duration_ms>>

\* C10: every call of generate_mix_audio and of optimize_audio_length comes to
\* an end (it returns or raises), also for audio of length 0.
C10_LoopsTerminate == <>(pc \in {"done", "raised"})

====
